---------------------------- MODULE Spec2Model ----------------------------
(***************************************************************************)
(* A model of scripts/common/ai-workflow-validator.py: the workflow        *)
(* validator (WorkflowValidator), its repair path through the completion   *)
(* service, the response sanitizer and the command-line driver (main).     *)
(*                                                                         *)
(* Text is a sequence of one-character strings.  A YAML document inside a  *)
(* text is abbreviated by a one-letter token (see safe_load).              *)
(***************************************************************************)
EXTENDS Naturals, Sequences, FiniteSets

\* ------------------------------------------------------------------ bounds

\* Lines of a completion response explored for the sanitizer.
MaxLines == 5

\* ------------------------------------------------------- text primitives

NL == "\n"

\* str.strip() without arguments removes whitespace; the texts of the model
\* hold two whitespace characters, the blank and the line feed.
IsSpace(c) == c \in {" ", NL}

RECURSIVE LStrip(_)
LStrip(s) ==
    IF s = <<>> THEN <<>>
    ELSE IF IsSpace(Head(s)) THEN LStrip(Tail(s)) ELSE s

RECURSIVE RStrip(_)
RStrip(s) ==
    IF s = <<>> THEN <<>>
    ELSE IF IsSpace(s[Len(s)]) THEN RStrip(SubSeq(s, 1, Len(s) - 1)) ELSE s

\* str.strip()
Strip(s) == RStrip(LStrip(s))

\* str.startswith(prefix)
StartsWith(s, p) == Len(s) >= Len(p) /\ SubSeq(s, 1, Len(p)) = p

\* str.split('\n'): always at least one piece, the empty text gives [''].
RECURSIVE SplitAcc(_, _, _)
SplitAcc(s, cur, acc) ==
    IF s = <<>> THEN Append(acc, cur)
    ELSE IF Head(s) = NL THEN SplitAcc(Tail(s), <<>>, Append(acc, cur))
    ELSE SplitAcc(Tail(s), Append(cur, Head(s)), acc)

SplitLines(s) == SplitAcc(s, <<>>, <<>>)

\* '\n'.join(lines)
RECURSIVE JoinLines(_)
JoinLines(lines) ==
    IF lines = <<>> THEN <<>>
    ELSE IF Len(lines) = 1 THEN lines[1]
    ELSE lines[1] \o <<NL>> \o JoinLines(Tail(lines))

\* The backquote character (a TLA+ string cannot hold it).
BT == "bq"

Fence3 == <<BT, BT, BT>>
Fence4 == <<BT, BT, BT, BT>>
YamlTag == <<"y", "a", "m", "l">>

\* The test of the first loop's if: a yaml-tagged fence.
IsYamlFenceLine(line) ==
    \/ StartsWith(Strip(line), Fence3 \o YamlTag)
    \/ StartsWith(Strip(line), Fence4 \o YamlTag)

\* The test of the first loop's elif and of the second loop: any fence.
IsFenceLine(line) ==
    \/ StartsWith(Strip(line), Fence3)
    \/ StartsWith(Strip(line), Fence4)

\* The first loop (top-down): start_idx, 0 when no line starts a fence.
\* i is the 1-based index of the line looked at, Python's i + 1.
RECURSIVE FindStart(_, _)
FindStart(lines, i) ==
    IF i > Len(lines) THEN 0
    ELSE IF IsYamlFenceLine(lines[i]) THEN i
    ELSE IF IsFenceLine(lines[i]) THEN i
    ELSE FindStart(lines, i + 1)

\* The second loop scanning from the top instead of from the bottom.
FindEndTopDown(lines, i) ==
    LET s == FindStart(lines, 1)
        RECURSIVE Down(_)
        Down(k) == IF k > Len(lines) THEN Len(lines)
                   ELSE IF IsFenceLine(lines[k]) THEN k - 1
                   ELSE Down(k + 1)
    IN  IF s = 0 THEN Len(lines) ELSE Down(s + 1)

\* The second loop (bottom-up): end_idx, len(lines) when no line starts a
\* fence.  i is the 1-based index of the line looked at, Python's i + 1.
RECURSIVE FindEnd(_, _)
FindEnd(lines, i) ==
    IF i < 1 THEN Len(lines)
    ELSE IF IsFenceLine(lines[i]) THEN i - 1
    ELSE FindEnd(lines, i - 1)

\* WorkflowValidator.clean_ai_response
clean_ai_response(ai_response) ==
    IF ai_response = <<>> THEN <<>>
    ELSE LET lines == SplitLines(Strip(ai_response))
             start_idx == FindStart(lines, 1)
             end_idx == FindEnd(lines, Len(lines))
         IN  Strip(JoinLines(SubSeq(lines, start_idx + 1, end_idx)))

\* ------------------------------------------------------------- documents

\* Bounds of the documents explored for the structure checker.
MaxJobs == 2
MaxPrior == 1

\* A parsed document (what yaml.safe_load returns):
\*   kind  "map" (a mapping), "null" (None), "seq" (a list), "str" (a text)
\*   keys  the values x for which Python's `x in data` is true: the keys
\*         of a mapping, the items of a list, the substrings of a text
\*   jobs  the value under the key jobs: isdict, and its entries in the
\*         mapping's order; entry i is the job named JobName(i)
\* A job's value: ismap, and the keys it holds.
TrueKey == "<True>"
TopKeys == {"name", "on", "jobs", TrueKey}
JobKeys == {"uses", "runs-on", "steps"}

JobName(i) == i

NotAMapping == [ismap |-> FALSE, keys |-> {}]
JobConfigs == {NotAMapping} \cup {[ismap |-> TRUE, keys |-> k] : k \in SUBSET JobKeys}

NoJobs == [isdict |-> FALSE, entries |-> <<>>]
JobsValues ==
    {NoJobs} \cup
    {[isdict |-> TRUE, entries |-> e] :
        e \in UNION {[1..n -> JobConfigs] : n \in 0..MaxJobs}}

MapDoc(keys, jobs) == [kind |-> "map", keys |-> keys, jobs |-> jobs]
NullDoc == [kind |-> "null", keys |-> {}, jobs |-> NoJobs]
SeqDoc == [kind |-> "seq", keys |-> {}, jobs |-> NoJobs]
StrDoc == [kind |-> "str", keys |-> {}, jobs |-> NoJobs]

MapDocs ==
    {MapDoc(k, NoJobs) : k \in SUBSET (TopKeys \ {"jobs"})} \cup
    {MapDoc(k \cup {"jobs"}, j) : k \in SUBSET (TopKeys \ {"jobs"}), j \in JobsValues}

Docs == MapDocs \cup {NullDoc, SeqDoc, StrDoc}

\* An entry of issues_found.  The code formats a text; the model keeps what
\* the text is made of: the message (kind), the file, and the message's
\* argument (the list of missing fields, the boolean key, the job's name).
Issue(kind, file_path, arg) == [kind |-> kind, path |-> file_path, arg |-> arg]

\* WorkflowValidator.__init__: self.required_fields
required_fields == <<"name", "on", "jobs">>

\* [field for field in self.required_fields if field not in data]
missing_fields(data) == SelectSeq(required_fields, LAMBDA f : f \notin data.keys)

\* One issue per missing key instead of one for all of them.
RECURSIVE OneIssuePerField(_, _, _)
OneIssuePerField(fields, file_path, issues) ==
    IF fields = <<>> THEN issues
    ELSE OneIssuePerField(Tail(fields), file_path,
            Append(issues, Issue("missing_fields", file_path, <<Head(fields)>>)))

CheckRequiredPerField(data, file_path, st) ==
    IF missing_fields(data) # <<>>
    THEN [valid |-> FALSE,
          issues |-> OneIssuePerField(missing_fields(data), file_path, st.issues)]
    ELSE st

\* Lines 78-81: the required top-level fields.  st is [valid, issues].
CheckRequired(data, file_path, st) ==
    IF missing_fields(data) # <<>>
    THEN [valid |-> FALSE,
          issues |-> Append(st.issues,
                            Issue("missing_fields", file_path, missing_fields(data)))]
    ELSE st

\* Lines 84-87: a boolean among the keys.
CheckBooleanKeys(data, file_path, st) ==
    IF TrueKey \in data.keys
    THEN [valid |-> FALSE,
          issues |-> Append(st.issues, Issue("boolean_key", file_path, <<TrueKey>>))]
    ELSE st

\* The per-job check without the reusable-workflow exemption.
CheckJobNoExemption(job_name, job_config, file_path, st) ==
    LET s1 == IF "runs-on" \notin job_config.keys
              THEN [valid |-> FALSE,
                    issues |-> Append(st.issues,
                                      Issue("missing_runs_on", file_path, <<job_name>>))]
              ELSE st
    IN  IF "steps" \notin job_config.keys
        THEN [valid |-> FALSE,
              issues |-> Append(s1.issues,
                                Issue("missing_steps", file_path, <<job_name>>))]
        ELSE s1

\* Lines 92-104: the body of the loop over data['jobs'].items().
CheckJob(job_name, job_config, file_path, st) ==
    IF ~job_config.ismap THEN st
    ELSE LET is_reusable_workflow == "uses" \in job_config.keys
             s1 == IF ~is_reusable_workflow /\ "runs-on" \notin job_config.keys
                   THEN [valid |-> FALSE,
                         issues |-> Append(st.issues,
                                           Issue("missing_runs_on", file_path, <<job_name>>))]
                   ELSE st
         IN  IF ~is_reusable_workflow /\ "steps" \notin job_config.keys
             THEN [valid |-> FALSE,
                   issues |-> Append(s1.issues,
                                     Issue("missing_steps", file_path, <<job_name>>))]
             ELSE s1

\* Lines 90-91: the loop over the jobs, from entry i on.
RECURSIVE CheckJobs(_, _, _, _)
CheckJobs(data, i, file_path, st) ==
    IF ~("jobs" \in data.keys /\ data.jobs.isdict) THEN st
    ELSE IF i > Len(data.jobs.entries) THEN st
    ELSE CheckJobs(data, i + 1, file_path,
                   CheckJob(JobName(i), data.jobs.entries[i], file_path, st))

\* WorkflowValidator.validate_workflow_structure.  The result is
\* [valid, issues, exc]: the value returned, issues_found after the call,
\* and the exception the call raised ("none" when it returned).
\*   None:       `field not in data` raises TypeError (line 78)
\*   list, text: line 78 evaluates, the issue of line 80 is appended, and
\*               data.keys() raises AttributeError (line 84)
validate_workflow_structure(data, file_path, issues) ==
    LET st0 == [valid |-> TRUE, issues |-> issues]
    IN  IF data.kind = "null"
        THEN [valid |-> FALSE, issues |-> issues, exc |-> "TypeError"]
        ELSE IF data.kind # "map"
        THEN [valid |-> FALSE,
              issues |-> CheckRequired(data, file_path, st0).issues,
              exc |-> "AttributeError"]
        ELSE LET st == CheckJobs(data, 1, file_path,
                           CheckBooleanKeys(data, file_path,
                               CheckRequired(data, file_path, st0)))
             IN  [valid |-> st.valid, issues |-> st.issues, exc |-> "none"]

\* ----------------------------------------------------------------- files

\* Workflow files of the directory, runs of the program on it, and the cap
\* on the depth of validate_file's recursion.
MaxFiles == 2
MaxRuns == 3
MaxDepth == 2

\* File i stands for the path "w<i>.yml".
Paths == 1..MaxFiles

\* What is at a path: a text, no file, or a file that cannot be read
\* (permissions, bytes that are not UTF-8).
NoFile == <<"<no file>">>
Unreadable == <<"<unreadable>">>

\* Texts of workflow documents, one token each.
ValidText == <<"V">>
NoJobsText == <<"J">>
BooleanOnText == <<"B">>
ListText == <<"L">>
ScalarText == <<"a">>
EmptyText == <<>>
BrokenText == <<BT>>

ValidDoc ==
    MapDoc({"name", "on", "jobs"},
           [isdict |-> TRUE,
            entries |-> <<[ismap |-> TRUE, keys |-> {"runs-on", "steps"}]>>])
NoJobsDoc == MapDoc({"name", "on"}, NoJobs)
BooleanOnDoc ==
    MapDoc({"name", TrueKey, "jobs"},
           [isdict |-> TRUE, entries |-> <<[ismap |-> TRUE, keys |-> {}]>>])

\* yaml.safe_load on the texts of the model: [ok, data], ok false for a
\* yaml.YAMLError.  The empty text loads as None, a plain word as a text,
\* and a backquote cannot start a YAML token.
safe_load(text) ==
    CASE text = EmptyText -> [ok |-> TRUE, data |-> NullDoc]
      [] text = ValidText -> [ok |-> TRUE, data |-> ValidDoc]
      [] text = NoJobsText -> [ok |-> TRUE, data |-> NoJobsDoc]
      [] text = BooleanOnText -> [ok |-> TRUE, data |-> BooleanOnDoc]
      [] text = ListText -> [ok |-> TRUE, data |-> SeqDoc]
      [] text = ScalarText -> [ok |-> TRUE, data |-> StrDoc]
      [] OTHER -> [ok |-> FALSE, data |-> NullDoc]

\* WorkflowValidator.validate_yaml_syntax, text being what is at file_path:
\* [ok, data, issues].
validate_yaml_syntax(file_path, text, issues) ==
    IF text \in {NoFile, Unreadable}
    THEN [ok |-> FALSE, data |-> NullDoc,
          issues |-> Append(issues, Issue("file_error", file_path, <<>>))]
    ELSE IF safe_load(text).ok
    THEN [ok |-> TRUE, data |-> safe_load(text).data, issues |-> issues]
    ELSE [ok |-> FALSE, data |-> NullDoc,
          issues |-> Append(issues, Issue("yaml_syntax", file_path, <<>>))]

\* Python's seq[-n:].
LastN(seq, n) == SubSeq(seq, IF Len(seq) > n THEN Len(seq) - n + 1 ELSE 1, Len(seq))

\* The slices passed to ai_fix_workflow: issues_found[-1:] after a syntax
\* failure (line 207), issues_found[-3:] after a structure failure (229).
SyntaxFixIssues(issues) == LastN(issues, 1)
StructureFixIssues(issues) == LastN(issues, 3)

\* What GraniteAIClient.complete returns to ai_fix_workflow: a text already
\* stripped, the empty text when the request failed.
YamlFence == Fence3 \o YamlTag
Responses ==
    { <<>>,
      JoinLines(<<YamlFence, ValidText, Fence3>>),
      JoinLines(<<ScalarText, YamlFence, ValidText, Fence3, ScalarText>>),
      ValidText,
      JoinLines(<<YamlFence, NoJobsText, Fence3>>),
      JoinLines(<<Fence3, BooleanOnText, Fence3>>),
      JoinLines(<<Fence3, BrokenText, Fence3>>),
      JoinLines(<<YamlFence, ValidText>>) }

\* The backup renamed at every repair, whether or not one exists.
backup_always(bk, files, p) == [bk EXCEPT ![p] = files[p]]

\* Lines 212-214 and 234-236: os.rename(file_path, backup_path) unless the
\* backup exists.  The backups after the step.
backup_if_absent(bk, files, p) ==
    IF bk[p] = NoFile THEN [bk EXCEPT ![p] = files[p]] ELSE bk

\* The re-validation keeping the caller's auto_fix.
revalidate_keeps_auto_fix(auto_fix) == auto_fix

\* Line 221: the nested call's auto_fix argument.
revalidate_auto_fix(auto_fix) == FALSE

\* The final result looking at the syntax check alone.
final_result_syntax_only(is_valid_yaml, is_valid_structure) == is_valid_yaml

\* Lines 244-248: the result when no repair was written.
final_result(is_valid_yaml, is_valid_structure) ==
    is_valid_yaml /\ is_valid_structure

\* WorkflowValidator.get_report
get_report(issues) ==
    [total_issues |-> Len(issues),
     issues |-> issues,
     status |-> IF Len(issues) = 0 THEN "passed" ELSE "failed"]

B2S(b) == IF b THEN "True" ELSE "False"

\* ----------------------------------------------------------------- state

VARIABLES
    fs,            \* the file at each path
    backup,        \* the file at each <path>.backup
    orig,          \* observer: the file at each path before any run
    n_writes,      \* observer: repair writes per path, over all runs
    run,           \* the number of the run of the program
    pc,            \* where the program is
    args,          \* main's arguments: api_key given, path's kind, auto_fix
    todo,          \* validate_directory: workflow_files not yet visited
    all_valid,     \* validate_directory: all_valid
    success,       \* main: success ("unset" before the assignment)
    issues_found,  \* WorkflowValidator.issues_found
    call,          \* the running validate_file call: its arguments, depth, locals
    obs,           \* observer of the current top-level validate_file call
    exit_code,     \* the process's exit code, meaningful when pc = "exited"
    exc,           \* the exception that ended the process ("none")
    ai_response,   \* the sanitizer alone: the text given to clean_ai_response
    src_lines,     \* the sanitizer alone: the lines ai_response was joined from
    cleaned,       \* the sanitizer alone: the text returned
    data,          \* the structure checker alone: the document given
    checked        \* the function called alone: "none" before the call, then
                   \* "clean", or validate_workflow_structure's "True",
                   \* "False" or "raised"

pure_vars == <<ai_response, src_lines, cleaned, data, checked>>
disk_vars == <<fs, backup, orig, n_writes>>
driver_vars == <<run, pc, args, todo, all_valid, success, call, obs, exit_code, exc>>
vars == <<disk_vars, driver_vars, issues_found, pure_vars>>

NoArgs == [api_key |-> FALSE, path |-> "none", auto_fix |-> FALSE]
NoCall == [file_path |-> 0, auto_fix |-> FALSE, depth |-> 0, data |-> NullDoc]

\* The observer of a top-level validate_file call:
\*   base         len(issues_found) when the call began
\*   auto_fix     the call's auto_fix argument
\*   fix_calls    calls of ai_fix_workflow
\*   fix_issues   the issues passed to the last of them
\*   fix_at       len(issues_found) at that call
\*   fix_branch   "syntax" or "structure": where the repair was asked
\*   writes       writes of repaired content
\*   revals       nested validate_file calls begun
\*   reval_ret    what the nested call returned
\*   max_depth    the deepest nesting reached
\*   ret          what the top-level call returned ("none" while it runs or
\*                when an exception ended it)
NoObs ==
    [file_path |-> 0, base |-> 0, auto_fix |-> FALSE, fix_calls |-> 0,
     fix_issues |-> <<>>, fix_at |-> 0, fix_branch |-> "none", writes |-> 0,
     revals |-> 0, reval_ret |-> "none", max_depth |-> 0, ret |-> "none"]

PureIdle ==
    /\ ai_response = <<>>
    /\ src_lines = <<>>
    /\ cleaned = <<>>
    /\ data = NullDoc
    /\ checked = "none"

\* Texts a workflow file may hold before the first run.
InitTexts ==
    {ValidText, NoJobsText, BooleanOnText, ListText, ScalarText, EmptyText,
     BrokenText, Unreadable, NoFile}

\* The validator and the driver before main runs.
Fresh ==
    /\ pc = "start"
    /\ args = NoArgs
    /\ todo = {}
    /\ all_valid = TRUE
    /\ success = "unset"
    /\ issues_found = <<>>
    /\ call = NoCall
    /\ obs = NoObs
    /\ exit_code = 0
    /\ exc = "none"

\* One run of the program over a directory of MaxFiles paths.
Init ==
    /\ fs \in [Paths -> InitTexts]
    /\ backup = [p \in Paths |-> NoFile]
    /\ orig = fs
    /\ n_writes = [p \in Paths |-> 0]
    /\ run = 1
    /\ Fresh
    /\ PureIdle

\* Runs of the program one after the other, the directory holding the one
\* path 1.
RunsInit ==
    /\ fs \in {f \in [Paths -> InitTexts] : \A p \in Paths : p # 1 => f[p] = NoFile}
    /\ backup = [p \in Paths |-> NoFile]
    /\ orig = fs
    /\ n_writes = [p \in Paths |-> 0]
    /\ run = 1
    /\ Fresh
    /\ PureIdle

\* ------------------------------------------------------------------ main

\* Lines 293-296: no API key.
MainNoKey ==
    /\ pc = "start"
    /\ \E pk \in {"file", "dir", "none"}, af \in BOOLEAN :
           args' = [api_key |-> FALSE, path |-> pk, auto_fix |-> af]
    /\ pc' = "exited"
    /\ exit_code' = 1
    /\ UNCHANGED <<disk_vars, run, todo, all_valid, success, call, obs, exc,
                   issues_found, pure_vars>>

\* Lines 308-310: the path is neither a file nor a directory.
MainNoPath ==
    /\ pc = "start"
    /\ \E af \in BOOLEAN :
           args' = [api_key |-> TRUE, path |-> "none", auto_fix |-> af]
    /\ pc' = "exited"
    /\ exit_code' = 1
    /\ UNCHANGED <<disk_vars, run, todo, all_valid, success, call, obs, exc,
                   issues_found, pure_vars>>

\* The entry of a top-level validate_file(file_path, auto_fix) call.
EnterCall(file_path, auto_fix) ==
    /\ call' = [file_path |-> file_path, auto_fix |-> auto_fix, depth |-> 0,
                data |-> NullDoc]
    /\ obs' = [NoObs EXCEPT !.file_path = file_path,
                            !.base = Len(issues_found),
                            !.auto_fix = auto_fix]
    /\ pc' = "vf_read"

\* Lines 304-305: path.is_file().
MainFile ==
    /\ pc = "start"
    /\ \E p \in Paths, af \in BOOLEAN :
           /\ fs[p] # NoFile
           /\ args' = [api_key |-> TRUE, path |-> "file", auto_fix |-> af]
           /\ EnterCall(p, af)
    /\ UNCHANGED <<disk_vars, run, todo, all_valid, success, exit_code, exc,
                   issues_found, pure_vars>>

\* Lines 306-307 and 257-263: path.is_dir(), and no workflow file in it.
MainDirEmpty ==
    /\ pc = "start"
    /\ \A p \in Paths : fs[p] = NoFile
    /\ \E af \in BOOLEAN :
           args' = [api_key |-> TRUE, path |-> "dir", auto_fix |-> af]
    /\ success' = "True"
    /\ pc' = "report"
    /\ UNCHANGED <<disk_vars, run, todo, all_valid, call, obs, exit_code, exc,
                   issues_found, pure_vars>>

\* Lines 306-307 and 257-267: path.is_dir(), workflow_files is not empty.
MainDir ==
    /\ pc = "start"
    /\ \E p \in Paths : fs[p] # NoFile
    /\ \E af \in BOOLEAN :
           args' = [api_key |-> TRUE, path |-> "dir", auto_fix |-> af]
    /\ todo' = {p \in Paths : fs[p] # NoFile}
    /\ all_valid' = TRUE
    /\ pc' = "dir_loop"
    /\ UNCHANGED <<disk_vars, run, success, call, obs, exit_code, exc,
                   issues_found, pure_vars>>

\* Lines 268-269: the next file of the loop (glob's order is the file
\* system's).
DirNext ==
    /\ pc = "dir_loop"
    /\ \E p \in todo :
           /\ todo' = todo \ {p}
           /\ EnterCall(p, args.auto_fix)
    /\ UNCHANGED <<disk_vars, run, args, all_valid, success, exit_code, exc,
                   issues_found, pure_vars>>

\* Line 272: return all_valid.
DirDone ==
    /\ pc = "dir_loop"
    /\ todo = {}
    /\ success' = B2S(all_valid)
    /\ pc' = "report"
    /\ UNCHANGED <<disk_vars, run, args, todo, all_valid, call, obs, exit_code,
                   exc, issues_found, pure_vars>>

\* Lines 313-328: the report and the exit code.
Report ==
    /\ pc = "report"
    /\ exit_code' = IF get_report(issues_found).total_issues > 0 THEN 1 ELSE 0
    /\ pc' = "exited"
    /\ UNCHANGED <<disk_vars, run, args, todo, all_valid, success, call, obs,
                   exc, issues_found, pure_vars>>

\* The program run again on the same files: a new process, a new validator.
Restart ==
    /\ pc = "exited"
    /\ run < MaxRuns
    /\ run' = run + 1
    /\ pc' = "start"
    /\ args' = NoArgs
    /\ todo' = {}
    /\ all_valid' = TRUE
    /\ success' = "unset"
    /\ issues_found' = <<>>
    /\ call' = NoCall
    /\ obs' = NoObs
    /\ exit_code' = 0
    /\ exc' = "none"
    /\ UNCHANGED <<disk_vars, pure_vars>>

\* --------------------------------------------------------- validate_file

\* A return of the running call with value v.  A nested call's value is
\* the value of its caller (line 221), so it is the top-level call's.
\* Back in validate_directory (lines 269-270) or in main (line 305).
Return(v, o) ==
    /\ obs' = [o EXCEPT !.ret = B2S(v),
                        !.reval_ret = IF call.depth > 0 THEN B2S(v) ELSE @]
    /\ call' = NoCall
    /\ IF args.path = "dir"
       THEN /\ pc' = "dir_loop"
            /\ all_valid' = (all_valid /\ v)
            /\ UNCHANGED success
       ELSE /\ pc' = "report"
            /\ success' = B2S(v)
            /\ UNCHANGED all_valid

\* An exception nothing catches: it leaves validate_file, validate_directory
\* and main, and the interpreter exits with code 1.
Raise(e, o) ==
    /\ obs' = o
    /\ call' = NoCall
    /\ pc' = "exited"
    /\ exit_code' = 1
    /\ exc' = e
    /\ UNCHANGED <<all_valid, success>>

\* The observer at a call of ai_fix_workflow(content, issues).
AskFix(branch, issues) ==
    [obs EXCEPT !.fix_calls = @ + 1,
                !.fix_issues = issues,
                !.fix_at = Len(issues_found),
                !.fix_branch = branch]

\* Lines 212-217 and 234-239: the backup and the write of cleaned_content.
WriteRepair(p, cleaned_content) ==
    /\ backup' = backup_if_absent(backup, fs, p)
    /\ fs' = [fs EXCEPT ![p] = cleaned_content]
    /\ n_writes' = [n_writes EXCEPT ![p] = @ + 1]
    /\ UNCHANGED orig

\* Lines 191-196: the file cannot be read.
VfCannotRead ==
    /\ pc = "vf_read"
    /\ fs[call.file_path] \in {Unreadable, NoFile}
    /\ issues_found' = Append(issues_found, Issue("cannot_read", call.file_path, <<>>))
    /\ Return(FALSE, obs)
    /\ UNCHANGED <<disk_vars, run, args, todo, exit_code, exc, pure_vars>>

\* Lines 191-199: the file is read and parses.
VfSyntaxOk ==
    /\ pc = "vf_read"
    /\ fs[call.file_path] \notin {Unreadable, NoFile}
    /\ LET r == validate_yaml_syntax(call.file_path, fs[call.file_path], issues_found)
       IN  /\ r.ok
           /\ issues_found' = r.issues
           /\ call' = [call EXCEPT !.data = r.data]
    /\ pc' = "vf_structure"
    /\ UNCHANGED <<disk_vars, run, args, todo, all_valid, success, obs, exit_code,
                   exc, pure_vars>>

\* Lines 191-201: the file is read and does not parse.
VfSyntaxError ==
    /\ pc = "vf_read"
    /\ fs[call.file_path] \notin {Unreadable, NoFile}
    /\ LET r == validate_yaml_syntax(call.file_path, fs[call.file_path], issues_found)
       IN  /\ ~r.ok
           /\ issues_found' = r.issues
    /\ pc' = "vf_syntax_failed"
    /\ UNCHANGED <<disk_vars, run, args, todo, all_valid, success, call, obs,
                   exit_code, exc, pure_vars>>

\* Lines 202, 222: a syntax failure without auto_fix.
VfSyntaxNoFix ==
    /\ pc = "vf_syntax_failed"
    /\ ~call.auto_fix
    /\ Return(FALSE, obs)
    /\ UNCHANGED <<disk_vars, run, args, todo, exit_code, exc, issues_found,
                   pure_vars>>

\* Lines 202-208, 222: the repair request fails (the empty text).
\* ai_analyze_workflow's answer is printed and changes nothing.
VfSyntaxFixEmpty ==
    /\ pc = "vf_syntax_failed"
    /\ call.auto_fix
    /\ <<>> \in Responses
    /\ Return(FALSE, AskFix("syntax", SyntaxFixIssues(issues_found)))
    /\ UNCHANGED <<disk_vars, run, args, todo, exit_code, exc, issues_found,
                   pure_vars>>

\* Lines 202-221: the repair is written and the file validated again.
VfSyntaxFixWrite ==
    /\ pc = "vf_syntax_failed"
    /\ call.auto_fix
    /\ call.depth < MaxDepth
    /\ \E fixed_content \in Responses :
           /\ fixed_content # <<>>
           /\ clean_ai_response(fixed_content) # <<>>
           /\ WriteRepair(call.file_path, clean_ai_response(fixed_content))
    /\ call' = [call EXCEPT !.depth = @ + 1,
                            !.auto_fix = revalidate_auto_fix(call.auto_fix)]
    /\ obs' = [AskFix("syntax", SyntaxFixIssues(issues_found)) EXCEPT
                   !.writes = @ + 1,
                   !.revals = @ + 1,
                   !.max_depth = IF call.depth + 1 > @ THEN call.depth + 1 ELSE @]
    /\ pc' = "vf_read"
    /\ UNCHANGED <<run, args, todo, all_valid, success, exit_code, exc,
                   issues_found, pure_vars>>

\* Lines 208-219: the response cleans to the empty text, nothing is
\* written, and line 219 reads backup_path, which was never assigned.
VfSyntaxFixUnbound ==
    /\ pc = "vf_syntax_failed"
    /\ call.auto_fix
    /\ \E fixed_content \in Responses :
           /\ fixed_content # <<>>
           /\ clean_ai_response(fixed_content) = <<>>
    /\ Raise("UnboundLocalError", AskFix("syntax", SyntaxFixIssues(issues_found)))
    /\ UNCHANGED <<disk_vars, run, args, todo, issues_found, pure_vars>>

\* Line 225: validate_workflow_structure raises.
VfStructureRaises ==
    /\ pc = "vf_structure"
    /\ LET r == validate_workflow_structure(call.data, call.file_path, issues_found)
       IN  /\ r.exc # "none"
           /\ issues_found' = r.issues
           /\ Raise(r.exc, obs)
    /\ UNCHANGED <<disk_vars, run, args, todo, pure_vars>>

\* Lines 225-227, 244-248: the structure is checked and no repair is asked.
VfStructureDone ==
    /\ pc = "vf_structure"
    /\ LET r == validate_workflow_structure(call.data, call.file_path, issues_found)
       IN  /\ r.exc = "none"
           /\ ~(~r.valid /\ call.auto_fix)
           /\ issues_found' = r.issues
           /\ Return(final_result(TRUE, r.valid), obs)
    /\ UNCHANGED <<disk_vars, run, args, todo, exit_code, exc, pure_vars>>

\* Lines 225-228: the structure is invalid and auto_fix is set.
VfStructureFailed ==
    /\ pc = "vf_structure"
    /\ LET r == validate_workflow_structure(call.data, call.file_path, issues_found)
       IN  /\ r.exc = "none"
           /\ ~r.valid /\ call.auto_fix
           /\ issues_found' = r.issues
    /\ pc' = "vf_structure_failed"
    /\ UNCHANGED <<disk_vars, run, args, todo, all_valid, success, call, obs,
                   exit_code, exc, pure_vars>>

\* Lines 229-230, 244-248: the repair request fails (the empty text).
VfStructureFixEmpty ==
    /\ pc = "vf_structure_failed"
    /\ <<>> \in Responses
    /\ Return(final_result(TRUE, FALSE),
              AskFix("structure", StructureFixIssues(issues_found)))
    /\ UNCHANGED <<disk_vars, run, args, todo, exit_code, exc, issues_found,
                   pure_vars>>

\* Lines 229-242: the repair is written and the call returns True.
VfStructureFixWrite ==
    /\ pc = "vf_structure_failed"
    /\ \E ai_fix \in Responses :
           /\ ai_fix # <<>>
           /\ clean_ai_response(ai_fix) # <<>>
           /\ WriteRepair(call.file_path, clean_ai_response(ai_fix))
    /\ Return(TRUE, [AskFix("structure", StructureFixIssues(issues_found)) EXCEPT
                         !.writes = @ + 1])
    /\ UNCHANGED <<run, args, todo, exit_code, exc, issues_found, pure_vars>>

\* Lines 230-241: the response cleans to the empty text, nothing is
\* written, and line 241 reads backup_path, which was never assigned.
VfStructureFixUnbound ==
    /\ pc = "vf_structure_failed"
    /\ \E ai_fix \in Responses :
           /\ ai_fix # <<>>
           /\ clean_ai_response(ai_fix) = <<>>
    /\ Raise("UnboundLocalError",
             AskFix("structure", StructureFixIssues(issues_found)))
    /\ UNCHANGED <<disk_vars, run, args, todo, issues_found, pure_vars>>

ValidateFile ==
    \/ VfCannotRead
    \/ VfSyntaxOk
    \/ VfSyntaxError
    \/ VfSyntaxNoFix
    \/ VfSyntaxFixEmpty
    \/ VfSyntaxFixWrite
    \/ VfSyntaxFixUnbound
    \/ VfStructureRaises
    \/ VfStructureDone
    \/ VfStructureFailed
    \/ VfStructureFixEmpty
    \/ VfStructureFixWrite
    \/ VfStructureFixUnbound

\* A step of one run of the program.
Step ==
    \/ MainNoKey
    \/ MainNoPath
    \/ MainFile
    \/ MainDirEmpty
    \/ MainDir
    \/ DirNext
    \/ DirDone
    \/ ValidateFile
    \/ Report

Next == Step

Spec == Init /\ [][Next]_vars

RunsNext == Step \/ Restart

RunsSpec == RunsInit /\ [][RunsNext]_vars

\* A started run goes on until the process exits: the program is one
\* thread that nothing suspends.
FairSpec == Spec /\ WF_vars(Step)

\* ------------------------------------------------- the sanitizer, alone

\* The driver at rest, for the specifications of one function.
DriverIdle ==
    /\ fs = [p \in Paths |-> NoFile]
    /\ backup = [p \in Paths |-> NoFile]
    /\ orig = fs
    /\ n_writes = [p \in Paths |-> 0]
    /\ run = 1
    /\ pc = "idle"
    /\ args = NoArgs
    /\ todo = {}
    /\ all_valid = TRUE
    /\ success = "unset"
    /\ call = NoCall
    /\ exit_code = 0
    /\ exc = "none"

\* Lines a response is made of: blank, prose, indented prose, fences with
\* and without the yaml tag, an indented fence, and backquotes inside a
\* line (no fence).
LineForms ==
    { <<>>,
      <<"a">>,
      <<" ", "a">>,
      Fence3,
      YamlFence,
      <<" ", " ">> \o Fence3,
      <<"a">> \o Fence3 }

LineSeqs == UNION {[1..n -> LineForms] : n \in 0..MaxLines}

CleanInit ==
    /\ src_lines \in LineSeqs
    /\ ai_response = JoinLines(src_lines)
    /\ cleaned = <<>>
    /\ data = NullDoc
    /\ checked = "none"
    /\ issues_found = <<>>
    /\ obs = NoObs
    /\ DriverIdle

\* A call of clean_ai_response(ai_response).
Clean ==
    /\ checked = "none"
    /\ cleaned' = clean_ai_response(ai_response)
    /\ checked' = "clean"
    /\ UNCHANGED <<disk_vars, driver_vars, issues_found, ai_response, src_lines, data>>

CleanNext == Clean

CleanSpec == CleanInit /\ [][CleanNext]_vars

\* ------------------------------------------- the structure checker, alone

\* The file the document was parsed from.
ThePath == CHOOSE p \in Paths : \A q \in Paths : p <= q

\* Issues recorded before the call, here by an earlier check of the file.
PriorIssue == Issue("missing_fields", ThePath, <<"name">>)
PriorIssues == UNION {[1..n -> {PriorIssue}] : n \in 0..MaxPrior}

StructureInit ==
    /\ data \in Docs
    /\ issues_found \in PriorIssues
    /\ obs = [NoObs EXCEPT !.file_path = ThePath, !.base = Len(issues_found)]
    /\ checked = "none"
    /\ ai_response = <<>>
    /\ src_lines = <<>>
    /\ cleaned = <<>>
    /\ DriverIdle

\* A call of validate_workflow_structure(data, file_path) that returns.
StructureReturns ==
    /\ checked = "none"
    /\ LET r == validate_workflow_structure(data, ThePath, issues_found)
       IN  /\ r.exc = "none"
           /\ issues_found' = r.issues
           /\ checked' = B2S(r.valid)
    /\ UNCHANGED <<disk_vars, driver_vars, ai_response, src_lines, cleaned, data>>

\* A call of validate_workflow_structure(data, file_path) that raises.
StructureRaises ==
    /\ checked = "none"
    /\ LET r == validate_workflow_structure(data, ThePath, issues_found)
       IN  /\ r.exc # "none"
           /\ issues_found' = r.issues
           /\ checked' = "raised"
    /\ UNCHANGED <<disk_vars, driver_vars, ai_response, src_lines, cleaned, data>>

StructureNext == StructureReturns \/ StructureRaises

StructureSpec == StructureInit /\ [][StructureNext]_vars

\* ---------------------------------------------------------------- claims

SetMin(S) == CHOOSE x \in S : \A y \in S : x <= y
SetMax(S) == CHOOSE x \in S : \A y \in S : y <= x

\* The issues appended since the observed call began.
Appended == SubSeq(issues_found, obs.base + 1, Len(issues_found))

\* The running program is inside validate_file.
InValidateFile == pc \in {"vf_read", "vf_syntax_failed", "vf_structure", "vf_structure_failed"}

\* C1: whenever validate_file with auto_fix writes repaired content, after a
\* syntax failure or after a structure failure, it runs exactly one
\* re-validation of the file and returns that re-validation's outcome.
C1_RevalidatesAfterWrite ==
    (obs.ret # "none" /\ obs.writes >= 1) =>
        (obs.revals = 1 /\ obs.reval_ret = obs.ret)

\* C2: no exception leaves validate_file or validate_directory, whatever
\* the file holds and whatever the repair request answers.
C2_NoExceptionEscapes == exc = "none"

\* C3: a top-level validate_file call asks for a repair at most once, writes
\* the file at most once and nests at most one re-validation, which runs
\* with auto_fix false; a repair is asked only with auto_fix true and after
\* an issue was recorded; and the call, once begun, ends.
C3_SingleRepair ==
    /\ obs.fix_calls <= 1
    /\ obs.writes <= 1
    /\ obs.revals <= 1
    /\ obs.max_depth <= 1
    /\ call.depth <= 1
    /\ (call.depth >= 1 => ~call.auto_fix)
    /\ (obs.fix_calls >= 1 => (obs.auto_fix /\ obs.fix_at > obs.base))
    /\ (obs.writes >= 1 => obs.fix_calls >= 1)

\* C3, with the termination: the safety part in every state, and every
\* validate_file call that has begun returns or raises.
C3_BoundedRepair == []C3_SingleRepair /\ (InValidateFile ~> ~InValidateFile)

C3_Witness ==
    /\ obs.ret # "none"
    /\ obs.fix_calls = 1
    /\ obs.writes = 1
    /\ obs.revals = 1
    /\ obs.max_depth = 1

\* C4: over the repairs of one path, run after run, <path>.backup is made
\* only when none exists, from the file as it was before the write, and is
\* never changed again: it holds what the path held before the first repair.
C4_BackupState ==
    \A p \in Paths :
        /\ backup[p] # NoFile => backup[p] = orig[p]
        /\ n_writes[p] >= 1 => backup[p] # NoFile

C4_BackupStep ==
    \A p \in Paths :
        backup'[p] # backup[p] =>
            /\ backup[p] = NoFile
            /\ n_writes[p] = 0
            /\ backup'[p] = fs[p]
            /\ n_writes'[p] = 1

\* C4: the state part in every state and the step part at every step.
C4_IdempotentBackup == []C4_BackupState /\ [][C4_BackupStep]_vars

C4_Witness ==
    \E p \in Paths :
        /\ n_writes[p] >= 2
        /\ backup[p] = orig[p]
        /\ fs[p] # orig[p]

\* C5: for a mapping missing one or more of name, on, jobs,
\* validate_workflow_structure returns false and appends exactly one
\* missing-fields issue, which names all the missing keys; when none is
\* missing it appends no such issue.
MissingKeys == {"name", "on", "jobs"} \ data.keys
MissingIssues == SelectSeq(Appended, LAMBDA i : i.kind = "missing_fields")

C5_OneMissingFieldsIssue ==
    (checked \in {"True", "False"} /\ data.kind = "map") =>
        IF MissingKeys # {}
        THEN /\ checked = "False"
             /\ Len(MissingIssues) = 1
             /\ MissingIssues[1].path = ThePath
             /\ {MissingIssues[1].arg[k] : k \in DOMAIN MissingIssues[1].arg} = MissingKeys
             /\ Len(MissingIssues[1].arg) = Cardinality(MissingKeys)
        ELSE Len(MissingIssues) = 0

C5_Witness ==
    /\ checked = "False"
    /\ data.kind = "map"
    /\ Cardinality(MissingKeys) >= 2
    /\ obs.base >= 1

\* C6: for each entry under jobs that is a mapping, the issues appended for
\* it are none when it has a uses key, and otherwise one per key absent
\* among runs-on and steps; an entry that is no mapping appends none; and
\* the function returns true exactly when it appended no issue at all.
JobIssues(i) ==
    SelectSeq(Appended,
              LAMBDA x : x.kind \in {"missing_runs_on", "missing_steps"}
                         /\ x.arg = <<JobName(i)>>)

C6_PerJobIssues ==
    (checked \in {"True", "False"} /\ data.kind = "map") =>
        /\ \A i \in DOMAIN data.jobs.entries :
               LET job == data.jobs.entries[i]
               IN  Len(JobIssues(i)) =
                       IF ~job.ismap THEN 0
                       ELSE IF "uses" \in job.keys THEN 0
                       ELSE Cardinality({"runs-on", "steps"} \ job.keys)
        /\ (checked = "True") <=> (Len(Appended) = 0)

C6_Witness ==
    /\ checked = "False"
    /\ Len(data.jobs.entries) >= 2
    /\ \E i, j \in DOMAIN data.jobs.entries :
           /\ data.jobs.entries[i] = [ismap |-> TRUE, keys |-> {}]
           /\ Len(JobIssues(i)) = 2
           /\ data.jobs.entries[j] = [ismap |-> TRUE, keys |-> {"uses"}]
           /\ Len(JobIssues(j)) = 0

\* C7: clean_ai_response returns the empty text for the empty text, the
\* whole text trimmed when no line starts a fence, and, when an opening and
\* a closing fence line surround a body, the lines strictly between the
\* first fence line from the top and the first from the bottom, trimmed.
BeginsFence(line) ==
    \E k \in 0..Len(line) :
        /\ k + 3 <= Len(line)
        /\ \A j \in 1..k : line[j] \in {" ", NL}
        /\ \A j \in (k + 1)..(k + 3) : line[j] = BT

Trimmed(s) ==
    LET solid == {i \in 1..Len(s) : s[i] \notin {" ", NL}}
    IN  IF solid = {} THEN <<>> ELSE SubSeq(s, SetMin(solid), SetMax(solid))

FenceLines == {i \in DOMAIN src_lines : BeginsFence(src_lines[i])}

C7_CleanContract ==
    checked = "clean" =>
        /\ ai_response = <<>> => cleaned = <<>>
        /\ FenceLines = {} => cleaned = Trimmed(ai_response)
        /\ Cardinality(FenceLines) >= 2 =>
               cleaned = Trimmed(JoinLines(SubSeq(src_lines, SetMin(FenceLines) + 1,
                                                  SetMax(FenceLines) - 1)))

C7_Witness ==
    /\ checked = "clean"
    /\ Cardinality(FenceLines) = 2
    /\ SetMin(FenceLines) > 1
    /\ SetMax(FenceLines) < Len(src_lines)
    /\ cleaned = <<"a">>

\* C8: main exits 1 without an API key or when the path is neither a file
\* nor a directory; otherwise it exits 0 exactly when the report shows no
\* issue, whatever validate_file or validate_directory returned.
C8_ExitCode ==
    pc = "exited" =>
        IF ~args.api_key \/ args.path = "none"
        THEN exit_code = 1
        ELSE (exit_code = 0) <=> (get_report(issues_found).total_issues = 0)

\* C9 as stated: validate_file returns true only if the call appended no
\* issue, so a true result on a fresh checker means the report passed; and
\* it returns false only if the call appended an issue.
C9_ResultAgreesWithIssues ==
    /\ obs.ret = "True" => Len(Appended) = 0
    /\ obs.ret = "False" => Len(Appended) >= 1
    /\ success = "True" => get_report(issues_found).status = "passed"

\* C9 as amended: the same with the true half limited to auto_fix false.
\* With auto_fix a call returns true after a repair, the issues that led to
\* the repair still recorded.
C9_ResultAgreesWithoutAutoFix ==
    /\ (obs.ret = "True" /\ ~obs.auto_fix) => Len(Appended) = 0
    /\ obs.ret = "False" => Len(Appended) >= 1
    /\ (success = "True" /\ ~args.auto_fix) =>
           get_report(issues_found).status = "passed"

C9_Witness ==
    /\ pc = "exited"
    /\ args.path = "dir"
    /\ ~args.auto_fix
    /\ success = "True"
    /\ obs.ret = "True"
    /\ exit_code = 0

\* C10: the issues passed to the repair request of a file are exactly the
\* issues appended for that file during its validate_file call.
C10_RepairGetsThisCallsIssues ==
    obs.fix_calls >= 1 =>
        obs.fix_issues = SubSeq(issues_found, obs.base + 1, obs.fix_at)

=============================================================================
